---- MODULE Spec2Model ----
(***************************************************************************)
(* The room editor of the text-sharing client, the room store and its      *)
(* change feed as seen by one editor session.  The repository holds two    *)
(* Room components: the one with the updated_at recency guard              *)
(* (src/unnamed/part_000) and the one without it (src/src/pages/Index.tsx, *)
(* lines 45-351).  `variant` says which of the two is mounted.             *)
(*                                                                         *)
(* A string-typed field that is null or undefined in the program holds the *)
(* value NULL here.  A nullable object (roomData, the stored row) is a     *)
(* sequence: <<>> for null, <<r>> for the object r.                        *)
(***************************************************************************)
EXTENDS Integers, Sequences, FiniteSets, TLC

\* ------------------------------------------------------------------ bounds
MaxTime == 2
MaxFeed == 2

\* ------------------------------------------------------------------ values
NULL == "null"

IsoStrings ==
  << "2024-01-01T00:00:00.000Z", "2024-01-02T00:00:00.000Z",
     "2024-01-03T00:00:00.000Z", "2024-01-04T00:00:00.000Z",
     "2024-01-05T00:00:00.000Z", "2024-01-06T00:00:00.000Z",
     "2024-01-07T00:00:00.000Z", "2024-01-08T00:00:00.000Z" >>

\* the updated_at values that occur: the first MaxTime instants
Timestamps == { IsoStrings[i] : i \in 1..MaxTime }

Me == "me@example.com"
Other == "other@example.com"

Texts == { "a", "b" }

RoomCode == "ABC123"

\* RoomRow: a record of the rooms table
Row(c, e, t) ==
  [ code |-> RoomCode, name |-> "Room ABC123", created_by |-> "owner",
    content |-> c, editor_email |-> e, updated_at |-> t ]

\* payload.new of the change feed: what a session can have written (any text,
\* under its own clock), and rows with no content or no updated_at
Events ==
  { Row(c, e, t) : c \in Texts, e \in {Me, Other}, t \in Timestamps }
    \cup { Row(NULL, Other, IsoStrings[1]), Row("a", Other, NULL),
           Row("b", Me, NULL) }

\* ------------------------------------------------------- pure functions
\* Date.parse: the instant of an ISO string, NaN for anything else
NaN == 0

DateParse(s) ==
  IF \E i \in 1..Len(IsoStrings) : IsoStrings[i] = s
  THEN CHOOSE i \in 1..Len(IsoStrings) : IsoStrings[i] = s
  ELSE NaN

\* JavaScript truthiness of a string | null
Truthy(s) == s # NULL /\ s # ""

\* isNewer taking a null watermark for "not newer"
isNewerNullBlocks(a, b) ==
  IF ~Truthy(a) \/ ~Truthy(b) THEN FALSE
  ELSE DateParse(a) > DateParse(b)

\* isNewer with the comparison of two time values made non-strict
isNewerOrEqual(a, b) ==
  IF ~Truthy(a) /\ ~Truthy(b) THEN FALSE
  ELSE IF Truthy(a) /\ ~Truthy(b) THEN TRUE
  ELSE IF ~Truthy(a) /\ Truthy(b) THEN FALSE
  ELSE LET da == DateParse(a)
           db == DateParse(b)
       IN IF da = NaN \/ db = NaN THEN Truthy(a) /\ ~Truthy(b) ELSE da >= db

\* Compare ISO timestamps; returns true if a is strictly newer than b
isNewer(a, b) ==
  IF ~Truthy(a) /\ ~Truthy(b) THEN FALSE
  ELSE IF Truthy(a) /\ ~Truthy(b) THEN TRUE
  ELSE IF ~Truthy(a) /\ Truthy(b) THEN FALSE
  ELSE LET da == DateParse(a)
           db == DateParse(b)
       IN IF da = NaN \/ db = NaN THEN Truthy(a) /\ ~Truthy(b) ELSE da > db

\* next.content ?? ""
Coalesce(c) == IF c = NULL THEN "" ELSE c

\* isSelfUpdate with the self check lost
isSelfUpdateNever(me, next) == FALSE

\* isSelfUpdate by strict equality alone
isSelfUpdateByEquality(me, next) == next.editor_email = me

isSelfUpdate(me, next) ==
  Truthy(me) /\ Truthy(next.editor_email) /\ next.editor_email = me

\* { ...(prev ?? {}), ...next }: next's fields over prev's
Merge(prev, next) ==
  LET p == IF prev = <<>> THEN next ELSE prev[1]
  IN [ f \in DOMAIN p \cup DOMAIN next |->
         IF f \in DOMAIN next THEN next[f] ELSE p[f] ]

\* the callback without the stale guard: every non-self payload is applied
UpdateHandlerNoGuard(st, me, next) ==
  IF isSelfUpdate(me, next)
  THEN [ roomData |-> << Merge(st.roomData, next) >>,
         content |-> st.content,
         lastAppliedAt |->
           IF isNewer(next.updated_at, st.lastAppliedAt)
           THEN next.updated_at ELSE st.lastAppliedAt,
         branch |-> "self" ]
  ELSE [ roomData |-> << next >>,
         content |-> Coalesce(next.content),
         lastAppliedAt |-> next.updated_at,
         branch |-> "applied" ]

\* the callback with the self branch moving the watermark unconditionally
UpdateHandlerSelfMoves(st, me, next) ==
  IF isSelfUpdate(me, next)
  THEN [ roomData |-> << Merge(st.roomData, next) >>,
         content |-> st.content,
         lastAppliedAt |-> next.updated_at,
         branch |-> "self" ]
  ELSE IF ~isNewer(next.updated_at, st.lastAppliedAt)
  THEN [ roomData |-> st.roomData, content |-> st.content,
         lastAppliedAt |-> st.lastAppliedAt, branch |-> "stale" ]
  ELSE [ roomData |-> << next >>,
         content |-> Coalesce(next.content),
         lastAppliedAt |-> next.updated_at,
         branch |-> "applied" ]

\* the postgres_changes UPDATE callback, as a function of the editor's
\* state st = [roomData, content, lastAppliedAt] and of payload.new;
\* branch names the path taken
UpdateHandler(st, me, next) ==
  IF isSelfUpdate(me, next)
  THEN [ roomData |-> << Merge(st.roomData, next) >>,
         content |-> st.content,
         lastAppliedAt |->
           IF isNewer(next.updated_at, st.lastAppliedAt)
           THEN next.updated_at ELSE st.lastAppliedAt,
         branch |-> "self" ]
  ELSE IF ~isNewer(next.updated_at, st.lastAppliedAt)
  THEN [ roomData |-> st.roomData, content |-> st.content,
         lastAppliedAt |-> st.lastAppliedAt, branch |-> "stale" ]
  ELSE [ roomData |-> << next >>,
         content |-> Coalesce(next.content),
         lastAppliedAt |-> next.updated_at,
         branch |-> "applied" ]

\* ------------------------------------------------------------------ state
VARIABLES
  variant,           \* "Room" (part_000) or "Index" (pages/Index.tsx)
  roomData,          \* useState<RoomRow | null>
  content,           \* useState<string>: the content buffer
  isSaving,          \* useState<boolean>
  loading,           \* useState<boolean>
  lastAppliedAtRef,  \* useRef<string | null>: the watermark
  myEmailRef,        \* useRef<string | null>: user?.email ?? null
  subscribed,        \* the realtime channel exists (effect ran, no cleanup yet)
  route,             \* "room" | "dashboard"
  toast,             \* title of the toast the last step showed, "none" if none
  loadReq,           \* the select issued by loadRoom
  saveReq,           \* the update issued by handleSave
  db,                \* the stored row of this room code: <<>> or <<row>>
  lastOp,            \* what the last step was, for the steps that report an
                     \* outcome; "step" for the others
  hiSeen,            \* latest instant of a version this session applied or saved
  feed,              \* the events of a delivery scenario
  delivered,         \* those of feed delivered at least once
  start,             \* the editor's state when the scenario began
  call,              \* the last evaluation of a helper function on its own
  login,             \* the Login page: its useState values, the request
                     \* handleSubmit awaits, its toast and its route
  net,               \* several editors of one room: the row, each editor's
                     \* state and the events the feed has yet to bring it
  sub                \* one call of subscribeToRoomUpdates: its fetch, its
                     \* channel, the lookups in flight, the onUpdate calls

editor == << roomData, content, isSaving, loading, lastAppliedAtRef, myEmailRef,
             subscribed, route, toast >>
scenario == << feed, delivered, start >>
aside == << call, login, net, sub >>
roomVars == << variant, editor, loadReq, saveReq, db, lastOp, hiSeen, scenario >>
vars == << variant, editor, loadReq, saveReq, db, lastOp, hiSeen, scenario, aside >>

EditorState ==
  [ roomData |-> roomData, content |-> content,
    lastAppliedAt |-> lastAppliedAtRef ]

Op(name) == [ op |-> name, branch |-> "none" ]

Later(t, hi) == IF DateParse(t) > hi THEN DateParse(t) ELSE hi

\* the editor is on screen: the render guard `loading || !roomData`
Rendered == subscribed /\ route = "room" /\ ~loading /\ roomData # <<>>

\* rows a room can hold when the editor opens: created by handleCreateRoom
\* (content "", no updated_at) or saved since
StoredRows ==
  { Row("", Other, NULL), Row(NULL, Other, NULL) }
    \cup { Row(c, e, IsoStrings[1]) : c \in Texts, e \in {Me, Other} }

\* no helper function has been evaluated on its own
NoCall == [ fn |-> "none", a |-> NULL, b |-> NULL, out |-> FALSE ]

\* Login as first rendered: useState("") twice, useState(true),
\* useState(false); `last` is the outcome of the request before this one,
\* `pending` the number of signIn / signUp calls that have not settled
LoginInit ==
  [ email |-> "", password |-> "", isLogin |-> TRUE, loading |-> FALSE,
    req |-> [ st |-> "idle", isLogin |-> TRUE ], route |-> "login",
    toast |-> "none", last |-> "none", pending |-> 0 ]

\* --------------------------------------------- several editors, one room
MaxSaves == 3

Peers == { 1, 2 }

PeerEmail(i) == IF i = 1 THEN Me ELSE Other

\* every editor has loaded the room as handleCreateRoom left it
NetInit ==
  [ row |-> Row("", Other, NULL),
    peers |-> [ i \in Peers |->
                  [ roomData |-> << Row("", Other, NULL) >>, content |-> "",
                    lastAppliedAt |-> NULL, dirty |-> FALSE,
                    save |-> [ st |-> "idle", nowIso |-> NULL,
                               content |-> "" ] ] ],
    inbox |-> [ i \in Peers |-> << >> ],
    saves |-> 0 ]

\* subscribeToRoomUpdates has just been called
SubInit ==
  [ fetch |-> "sent", channel |-> TRUE, arrived |-> 0, lookups |-> {},
    calls |-> << >> ]

\* the parts of the client other than the mounted editor are at rest
AsideIdle ==
  call = NoCall /\ login = LoginInit /\ net = NetInit /\ sub = SubInit

\* ------------------------------------------------------------------ Init
\* the component has mounted with a user and a room code: both effects ran,
\* loadRoom's select is in flight and the channel is subscribed
Init ==
  /\ variant \in { "Room", "Index" }
  /\ roomData = <<>>
  /\ content = ""
  /\ isSaving = FALSE
  /\ loading = TRUE
  /\ lastAppliedAtRef = NULL
  /\ myEmailRef = Me
  /\ subscribed = TRUE
  /\ route = "room"
  /\ toast = "none"
  /\ loadReq = [ st |-> "sent", room |-> <<>>, isMounted |-> TRUE ]
  /\ saveReq = [ st |-> "idle", nowIso |-> NULL, content |-> "",
                  written |-> NULL ]
  /\ db \in { <<>> } \cup { << r >> : r \in StoredRows }
  /\ lastOp = Op("mount")
  /\ hiSeen = 0
  /\ feed = {}
  /\ delivered = {}
  /\ start = EditorState
  /\ AsideIdle

\* ------------------------------------------------------------------ actions
\* Textarea onChange: setContent(e.target.value)
Type(c) ==
  /\ Rendered
  /\ c # content
  /\ content' = c
  /\ toast' = "none"
  /\ lastOp' = Op("step")
  /\ UNCHANGED << roomData, isSaving, loading, lastAppliedAtRef, myEmailRef,
                  subscribed, route, loadReq, saveReq, db, hiSeen, scenario, aside, variant >>

\* handleSave issuing its update without setIsSaving(true)
handleSaveNoFlag(nowIso) ==
  /\ Rendered
  /\ ~isSaving
  /\ saveReq.st = "idle"
  /\ DateParse(nowIso) > DateParse(saveReq.nowIso)
  /\ saveReq' = [ st |-> "sent", nowIso |-> nowIso, content |-> content,
                   written |-> NULL ]
  /\ toast' = "none"
  /\ lastOp' = Op("step")
  /\ UNCHANGED << roomData, content, isSaving, loading, lastAppliedAtRef,
                  myEmailRef, subscribed, route, loadReq, db, hiSeen,
                  scenario, aside, variant >>

\* handleSave up to its await: the Save button is disabled while isSaving
handleSave(nowIso) ==
  /\ Rendered
  /\ ~isSaving
  /\ saveReq.st = "idle"
  /\ DateParse(nowIso) > DateParse(saveReq.nowIso)
  /\ isSaving' = TRUE
  /\ saveReq' = [ st |-> "sent", nowIso |-> nowIso, content |-> content,
                   written |-> NULL ]
  /\ toast' = "none"
  /\ lastOp' = Op("step")
  /\ UNCHANGED << roomData, content, loading, lastAppliedAtRef, myEmailRef,
                  subscribed, route, loadReq, db, hiSeen, scenario, aside, variant >>

\* an update that also makes the saver the room's creator
UpdatedTakesOwnership(r, c, e, t) ==
  [ r EXCEPT !.content = c, !.editor_email = e, !.updated_at = t,
             !.created_by = e ]

\* the row after .update({content, editor_email, updated_at}).eq("code", ..)
Updated(r, c, e, t) ==
  [ r EXCEPT !.content = c, !.editor_email = e, !.updated_at = t ]

\* the store applies the update, or rejects it; saveReq.written keeps the
\* updated_at now in the row
StoreUpdate(ok) ==
  /\ saveReq.st = "sent"
  /\ db' = IF ok /\ db # <<>>
           THEN << Updated(db[1], saveReq.content, myEmailRef, saveReq.nowIso) >>
           ELSE db
  /\ saveReq' = [ saveReq EXCEPT
                    !.st = IF ok THEN "ok" ELSE "error",
                    !.content = "",
                    !.written = IF ok /\ db # <<>> THEN db'[1].updated_at
                                ELSE NULL ]
  /\ toast' = "none"
  /\ lastOp' = Op("step")
  /\ UNCHANGED << roomData, content, isSaving, loading, lastAppliedAtRef,
                  myEmailRef, subscribed, route, loadReq, hiSeen, scenario, aside, variant >>

\* handleSave leaving the watermark alone on success
SaveOutcomeKeeps(ok, lastAppliedAt, nowIso) ==
  [ lastAppliedAt |-> lastAppliedAt,
    toast |-> IF ok THEN "Saved successfully" ELSE "Save failed" ]

\* handleSave moving the watermark before it looks at the error
SaveOutcomeEager(ok, lastAppliedAt, nowIso) ==
  [ lastAppliedAt |-> nowIso,
    toast |-> IF ok THEN "Saved successfully" ELSE "Save failed" ]

\* handleSave after its await: the watermark and the toast, by outcome
SaveOutcome(ok, lastAppliedAt, nowIso) ==
  IF ok
  THEN [ lastAppliedAt |-> nowIso, toast |-> "Saved successfully" ]
  ELSE [ lastAppliedAt |-> lastAppliedAt, toast |-> "Save failed" ]

handleSaveDone ==
  /\ variant = "Room"
  /\ saveReq.st \in { "ok", "error" }
  /\ LET r == SaveOutcome(saveReq.st = "ok", lastAppliedAtRef, saveReq.nowIso)
     IN /\ lastAppliedAtRef' = r.lastAppliedAt
        /\ toast' = r.toast
  /\ hiSeen' = IF saveReq.st = "ok" THEN Later(saveReq.nowIso, hiSeen)
               ELSE hiSeen
  /\ lastOp' = Op(IF saveReq.st = "ok" THEN "saved" ELSE "saveFailed")
  /\ isSaving' = FALSE
  /\ saveReq' = [ saveReq EXCEPT !.st = "idle" ]
  /\ UNCHANGED << roomData, content, loading, myEmailRef, subscribed, route,
                  loadReq, db, scenario, aside, variant >>

\* the store answers loadRoom's select: the row, no row (PGRST116), or
\* another error
StoreSelect(fails) ==
  /\ loadReq.st = "sent"
  /\ loadReq' = [ loadReq EXCEPT
                    !.st = IF fails THEN "error"
                           ELSE IF db = <<>> THEN "notFound" ELSE "row",
                    !.room = IF fails THEN <<>> ELSE db ]
  /\ toast' = "none"
  /\ lastOp' = Op("step")
  /\ UNCHANGED << roomData, content, isSaving, loading, lastAppliedAtRef,
                  myEmailRef, subscribed, route, saveReq, db, hiSeen, scenario, aside, variant >>

\* loadRoom reporting every failure as a missing room
LoadToastNotFound(st) == "Room not found"

\* the title of the toast loadRoom shows when it got no row: "Room not
\* found", or "Error" (description "Failed to load room data.") in the catch
LoadToast(st) == IF st = "notFound" THEN "Room not found" ELSE "Error"

\* loadRoom's finally with the loading flag left as it is
LoadingAfterLoadKept(isMounted, flag) == flag

\* loadRoom's finally: if (isMounted) setLoading(false)
LoadingAfterLoad(isMounted, flag) == IF isMounted THEN FALSE ELSE flag

\* loadRoom after its await
loadRoomDone ==
  /\ variant = "Room"
  /\ loadReq.st \in { "row", "notFound", "error" }
  /\ IF loadReq.st = "row"
     THEN /\ lastAppliedAtRef' = loadReq.room[1].updated_at
          /\ IF loadReq.isMounted
             THEN /\ roomData' = loadReq.room
                  /\ content' = Coalesce(loadReq.room[1].content)
                  /\ hiSeen' = Later(loadReq.room[1].updated_at, hiSeen)
             ELSE UNCHANGED << roomData, content, hiSeen >>
          /\ toast' = "none"
          /\ lastOp' = Op("loaded")
          /\ UNCHANGED route
     ELSE /\ toast' = LoadToast(loadReq.st)
          /\ route' = "dashboard"
          /\ lastOp' = Op(loadReq.st)
          /\ UNCHANGED << roomData, content, lastAppliedAtRef, hiSeen >>
  /\ loading' = LoadingAfterLoad(loadReq.isMounted, loading)
  /\ loadReq' = [ loadReq EXCEPT !.st = "done", !.room = <<>> ]
  /\ UNCHANGED << isSaving, myEmailRef, subscribed, saveReq, db, scenario, aside,
                  variant >>

\* another session overwrites the row.  This session reads the row only in
\* answering loadRoom's select (a Save replaces every field a write sets, and
\* the feed brings the write as an event, whenever), so writes are taken
\* while that select is pending
RemoteWrite(ev) ==
  /\ db # <<>>
  /\ db # << ev >>
  /\ loadReq.st = "sent"
  /\ db' = << ev >>
  /\ toast' = "none"
  /\ lastOp' = Op("step")
  /\ UNCHANGED << roomData, content, isSaving, loading, lastAppliedAtRef,
                  myEmailRef, subscribed, route, loadReq, saveReq, hiSeen,
                  scenario, aside, variant >>

\* the channel delivers payload with payload.new = next
Handle(next) ==
  LET r == UpdateHandler(EditorState, myEmailRef, next)
  IN /\ subscribed
     /\ roomData' = r.roomData
     /\ content' = r.content
     /\ lastAppliedAtRef' = r.lastAppliedAt
     /\ hiSeen' = IF r.branch = "applied" THEN Later(next.updated_at, hiSeen)
                  ELSE hiSeen
     /\ toast' = "none"
     /\ lastOp' = [ op |-> "update", branch |-> r.branch ]
     /\ UNCHANGED << isSaving, loading, myEmailRef, subscribed, route,
                     loadReq, saveReq, db, variant >>

OnRemoteUpdate(next) ==
  variant = "Room" /\ Handle(next) /\ UNCHANGED << scenario, aside >>

\* ---------------------------------------------- pages/Index.tsx's Room
\* payload.new.content || ""
OrEmpty(c) == IF Truthy(c) THEN c ELSE ""

\* data?.email || "Unknown", and "Unknown" when the select failed
OrUnknown(email) == IF Truthy(email) THEN email ELSE "Unknown"

\* its postgres_changes UPDATE callback
IndexOnUpdate(next) ==
  /\ variant = "Index"
  /\ subscribed
  /\ roomData' = << next >>
  /\ content' = OrEmpty(next.content)
  /\ hiSeen' = Later(next.updated_at, hiSeen)
  /\ toast' = "none"
  /\ lastOp' = [ op |-> "update", branch |-> "applied" ]
  /\ UNCHANGED << isSaving, loading, lastAppliedAtRef, myEmailRef, subscribed,
                  route, loadReq, saveReq, db, scenario, aside, variant >>

\* its handleSave after the await
IndexHandleSaveDone ==
  /\ variant = "Index"
  /\ saveReq.st \in { "ok", "error" }
  /\ IF saveReq.st = "ok"
     THEN /\ toast' = "Saved successfully"
          /\ hiSeen' = Later(saveReq.nowIso, hiSeen)
          /\ lastOp' = Op("saved")
     ELSE /\ toast' = "Save failed"
          /\ lastOp' = Op("saveFailed")
          /\ UNCHANGED hiSeen
  /\ isSaving' = FALSE
  /\ saveReq' = [ saveReq EXCEPT !.st = "idle" ]
  /\ UNCHANGED << roomData, content, loading, lastAppliedAtRef, myEmailRef,
                  subscribed, route, loadReq, db, scenario, aside, variant >>

\* its loadRoom after the await
IndexLoadRoomDone ==
  /\ variant = "Index"
  /\ loadReq.st \in { "row", "notFound", "error" }
  /\ IF loadReq.st = "row"
     THEN /\ roomData' = loadReq.room
          /\ content' = OrEmpty(loadReq.room[1].content)
          /\ hiSeen' = Later(loadReq.room[1].updated_at, hiSeen)
          /\ toast' = "none"
          /\ lastOp' = Op("loaded")
          /\ UNCHANGED route
     ELSE /\ toast' = LoadToast(loadReq.st)
          /\ route' = "dashboard"
          /\ lastOp' = Op(loadReq.st)
          /\ UNCHANGED << roomData, content, hiSeen >>
  /\ loading' = FALSE
  /\ loadReq' = [ loadReq EXCEPT !.st = "done", !.room = <<>> ]
  /\ UNCHANGED << isSaving, lastAppliedAtRef, myEmailRef, subscribed, saveReq,
                  db, scenario, aside, variant >>

\* a payload without `new`: the handler returns at once
OnEmptyPayload ==
  /\ subscribed
  /\ toast' = "none"
  /\ lastOp' = Op("empty")
  /\ UNCHANGED << roomData, content, isSaving, loading, lastAppliedAtRef,
                  myEmailRef, subscribed, route, loadReq, saveReq, db, hiSeen,
                  scenario, aside, variant >>

\* the effect's cleanup, run when roomCode or user changes and at unmount:
\* removeChannel.  Its `isMounted = false` assigns the effect's local
\* variable; loadRoom received that variable's value (true) as an argument,
\* so loadReq.isMounted stays as it is
Cleanup ==
  /\ subscribed
  /\ subscribed' = FALSE
  /\ toast' = "none"
  /\ lastOp' = Op("step")
  /\ UNCHANGED << roomData, content, isSaving, loading, lastAppliedAtRef,
                  myEmailRef, route, loadReq, saveReq, db, hiSeen, scenario, aside, variant >>

Next ==
  \/ \E c \in Texts \cup {""} : Type(c)
  \/ \E t \in Timestamps : handleSave(t)
  \/ \E ok \in BOOLEAN : StoreUpdate(ok)
  \/ handleSaveDone
  \/ \E fails \in BOOLEAN : StoreSelect(fails)
  \/ loadRoomDone
  \/ \E ev \in Events : RemoteWrite(ev)
  \/ \E ev \in Events : OnRemoteUpdate(ev)
  \/ OnEmptyPayload
  \/ Cleanup
  \/ \E ev \in Events : IndexOnUpdate(ev)
  \/ IndexHandleSaveDone
  \/ IndexLoadRoomDone

Spec == Init /\ [][Next]_vars

\* the store answers every select, and the continuation of an await whose
\* promise has settled is run by the event loop
FairSpec ==
  /\ Spec
  /\ WF_vars(\E fails \in BOOLEAN : StoreSelect(fails))
  /\ WF_vars(loadRoomDone)
  /\ WF_vars(IndexLoadRoomDone)

\* --------------------------------------------------- delivery scenarios
\* The guarded component has loaded a row and holds some text; the feed then
\* delivers the events of `feed`, each at least once, in any order.
ScenarioTimes == { IsoStrings[i] : i \in 1..(MaxTime + 1) }

FeedEvents ==
  { Row(c, e, t) : c \in Texts, e \in {Me, Other}, t \in ScenarioTimes }
    \cup { Row(NULL, Other, IsoStrings[MaxTime]), Row("a", Other, NULL),
           Row("b", Me, NULL) }

InitFeed ==
  /\ variant = "Room"
  /\ \E t \in ScenarioTimes \cup {NULL} :
       /\ roomData = << Row("", Other, t) >>
       /\ lastAppliedAtRef = t
  /\ content \in { "", "a" }
  /\ isSaving = FALSE
  /\ loading = FALSE
  /\ myEmailRef = Me
  /\ subscribed = TRUE
  /\ route = "room"
  /\ toast = "none"
  /\ loadReq = [ st |-> "done", room |-> <<>>, isMounted |-> TRUE ]
  /\ saveReq = [ st |-> "idle", nowIso |-> NULL, content |-> "",
                  written |-> NULL ]
  /\ db = roomData
  /\ lastOp = Op("loaded")
  /\ hiSeen = DateParse(lastAppliedAtRef)
  /\ feed \in { S \in SUBSET FeedEvents : Cardinality(S) \in 1..MaxFeed }
  /\ delivered = {}
  /\ start = EditorState
  /\ AsideIdle

FeedDeliver(next) ==
  /\ variant = "Room"
  /\ next \in feed
  /\ Handle(next)
  /\ delivered' = delivered \cup { next }
  /\ UNCHANGED << feed, start, aside >>

NextFeed == \E ev \in FeedEvents : FeedDeliver(ev)

SpecFeed == InitFeed /\ [][NextFeed]_vars

\* the store answers every update, and the continuation of handleSave's
\* await is run by the event loop
FairSaveSpec ==
  /\ Spec
  /\ WF_vars(\E ok \in BOOLEAN : StoreUpdate(ok))
  /\ WF_vars(handleSaveDone)
  /\ WF_vars(IndexHandleSaveDone)

\* ------------------------------------------------------- helper functions
\* isNewer and isSelfUpdate evaluated on their own, on every pair of
\* arguments: a timestamp is null (or undefined), the empty string, a string
\* that is no date, or an ISO string; an email likewise
ArgTimes ==
  { NULL, "", "not a date" } \cup { IsoStrings[i] : i \in 1..Len(IsoStrings) }

ArgEmails == { NULL, "", Me, Other }

\* no editor is mounted
EditorIdle ==
  /\ variant = "Room"
  /\ roomData = <<>>
  /\ content = ""
  /\ isSaving = FALSE
  /\ loading = TRUE
  /\ lastAppliedAtRef = NULL
  /\ myEmailRef = NULL
  /\ subscribed = FALSE
  /\ route = "dashboard"
  /\ toast = "none"
  /\ loadReq = [ st |-> "done", room |-> <<>>, isMounted |-> TRUE ]
  /\ saveReq = [ st |-> "idle", nowIso |-> NULL, content |-> "",
                  written |-> NULL ]
  /\ db = <<>>
  /\ lastOp = Op("none")
  /\ hiSeen = 0
  /\ feed = {}
  /\ delivered = {}
  /\ start = EditorState

InitHelpers == EditorIdle /\ AsideIdle

CallIsNewer(a, b) ==
  /\ call' = [ fn |-> "isNewer", a |-> a, b |-> b, out |-> isNewer(a, b) ]
  /\ UNCHANGED << roomVars, login, net, sub >>

CallIsSelfUpdate(me, email) ==
  /\ call' = [ fn |-> "isSelfUpdate", a |-> me, b |-> email,
               out |-> isSelfUpdate(me, Row("a", email, NULL)) ]
  /\ UNCHANGED << roomVars, login, net, sub >>

NextHelpers ==
  \/ \E a, b \in ArgTimes : CallIsNewer(a, b)
  \/ \E me, email \in ArgEmails : CallIsSelfUpdate(me, email)

SpecHelpers == InitHelpers /\ [][NextHelpers]_vars

\* ------------------------------------------------------------ Login page
Passwords == { "", "secret" }

\* onChange of the email input
setEmail(e) ==
  /\ login.route = "login"
  /\ e # login.email
  /\ login' = [ login EXCEPT !.email = e, !.toast = "none" ]
  /\ UNCHANGED << roomVars, call, net, sub >>

\* onChange of the password input
setPassword(pw) ==
  /\ login.route = "login"
  /\ pw # login.password
  /\ login' = [ login EXCEPT !.password = pw, !.toast = "none" ]
  /\ UNCHANGED << roomVars, call, net, sub >>

\* the link under the form: setIsLogin(!isLogin)
setIsLogin ==
  /\ login.route = "login"
  /\ login' = [ login EXCEPT !.isLogin = ~login.isLogin, !.toast = "none" ]
  /\ UNCHANGED << roomVars, call, net, sub >>

\* handleSubmit without its `if (loading) return`
handleSubmitNoGuard ==
  /\ login.route = "login"
  /\ IF ~Truthy(login.email) \/ ~Truthy(login.password)
     THEN login' = [ login EXCEPT !.toast = "Missing fields" ]
     ELSE login' = [ login EXCEPT
                       !.loading = TRUE,
                       !.req = [ st |-> "sent", isLogin |-> login.isLogin ],
                       !.pending = login.pending + 1,
                       !.toast = "none" ]
  /\ UNCHANGED << roomVars, call, net, sub >>

\* handleSubmit up to its await; with loading set it returns at once
handleSubmit ==
  /\ login.route = "login"
  /\ IF login.loading
     THEN login' = login
     ELSE IF ~Truthy(login.email) \/ ~Truthy(login.password)
     THEN login' = [ login EXCEPT !.toast = "Missing fields" ]
     ELSE login' = [ login EXCEPT
                       !.loading = TRUE,
                       !.req = [ st |-> "sent", isLogin |-> login.isLogin ],
                       !.pending = login.pending + 1,
                       !.toast = "none" ]
  /\ UNCHANGED << roomVars, call, net, sub >>

\* signIn / signUp settles: a session, an error in the result, or a throw
AuthOutcomes == { "ok", "error", "thrown" }

AuthAnswer(outcome) ==
  /\ login.req.st = "sent"
  /\ login' = [ login EXCEPT !.req.st = outcome, !.toast = "none",
                              !.pending = login.pending - 1 ]
  /\ UNCHANGED << roomVars, call, net, sub >>

\* handleSubmit leaving the loading flag set after a rejection
SubmitOutcomeStuck(outcome, wasLogin, l) ==
  IF outcome = "error"
  THEN [ l EXCEPT !.toast = IF wasLogin THEN "Login failed"
                            ELSE "Registration failed" ]
  ELSE IF outcome = "thrown"
  THEN [ l EXCEPT !.toast = "Error", !.loading = FALSE ]
  ELSE IF wasLogin
  THEN [ l EXCEPT !.toast = "Welcome back!", !.route = "dashboard",
                  !.loading = FALSE ]
  ELSE [ l EXCEPT !.toast = "Account created!", !.isLogin = TRUE,
                  !.loading = FALSE ]

\* handleSubmit after its await, isLogin being the value it was called with
SubmitOutcome(outcome, wasLogin, l) ==
  IF outcome = "error"
  THEN [ l EXCEPT !.toast = IF wasLogin THEN "Login failed"
                            ELSE "Registration failed",
                  !.loading = FALSE ]
  ELSE IF outcome = "thrown"
  THEN [ l EXCEPT !.toast = "Error", !.loading = FALSE ]
  ELSE IF wasLogin
  THEN [ l EXCEPT !.toast = "Welcome back!", !.route = "dashboard",
                  !.loading = FALSE ]
  ELSE [ l EXCEPT !.toast = "Account created!", !.isLogin = TRUE,
                  !.loading = FALSE ]

handleSubmitDone ==
  /\ login.req.st \in AuthOutcomes
  /\ login' = [ SubmitOutcome(login.req.st, login.req.isLogin, login)
                  EXCEPT !.req.st = "idle", !.last = login.req.st ]
  /\ UNCHANGED << roomVars, call, net, sub >>

InitLogin == EditorIdle /\ AsideIdle

NextLogin ==
  \/ \E e \in { "", Me } : setEmail(e)
  \/ \E pw \in Passwords : setPassword(pw)
  \/ setIsLogin
  \/ handleSubmit
  \/ \E o \in AuthOutcomes : AuthAnswer(o)
  \/ handleSubmitDone

SpecLogin == InitLogin /\ [][NextLogin]_vars

\* --------------------------------------------- several editors, one room
\* Every editor runs the guarded Room component under its own email.  The
\* editors' clocks agree: the k-th Save pressed, by whichever editor, takes
\* the k-th instant.  The feed brings each committed update to every
\* subscriber, the writer included, in commit order; no Save fails.
PeerState(i) ==
  [ roomData |-> net.peers[i].roomData, content |-> net.peers[i].content,
    lastAppliedAt |-> net.peers[i].lastAppliedAt ]

\* Textarea onChange of editor i
PeerType(i, c) ==
  /\ c # net.peers[i].content
  /\ net' = [ net EXCEPT !.peers[i].content = c, !.peers[i].dirty = TRUE ]
  /\ UNCHANGED << roomVars, call, login, sub >>

\* handleSave of editor i up to its await
PeerSave(i) ==
  /\ net.peers[i].save.st = "idle"
  /\ net.saves < MaxSaves
  /\ net' = [ net EXCEPT
                !.peers[i].save = [ st |-> "sent",
                                    nowIso |-> IsoStrings[net.saves + 1],
                                    content |-> net.peers[i].content ],
                !.peers[i].dirty = FALSE,
                !.saves = net.saves + 1 ]
  /\ UNCHANGED << roomVars, call, login, sub >>

\* the store commits editor i's update and the feed queues the event
PeerStore(i) ==
  /\ net.peers[i].save.st = "sent"
  /\ LET r == Updated(net.row, net.peers[i].save.content, PeerEmail(i),
                      net.peers[i].save.nowIso)
     IN net' = [ net EXCEPT
                   !.row = r,
                   !.inbox = [ j \in Peers |-> Append(net.inbox[j], r) ],
                   !.peers[i].save.st = "ok" ]
  /\ UNCHANGED << roomVars, call, login, sub >>

\* handleSave of editor i after its await
PeerSaveDone(i) ==
  /\ net.peers[i].save.st = "ok"
  /\ net' = [ net EXCEPT
                !.peers[i].lastAppliedAt =
                   SaveOutcome(TRUE, net.peers[i].lastAppliedAt,
                               net.peers[i].save.nowIso).lastAppliedAt,
                !.peers[i].save = [ st |-> "idle", nowIso |-> NULL,
                                    content |-> "" ] ]
  /\ UNCHANGED << roomVars, call, login, sub >>

\* the channel of editor i delivers the next event to its UPDATE callback
PeerDeliver(i) ==
  /\ net.inbox[i] # << >>
  /\ LET r == UpdateHandler(PeerState(i), PeerEmail(i), Head(net.inbox[i]))
     IN net' = [ net EXCEPT
                   !.inbox[i] = Tail(net.inbox[i]),
                   !.peers[i].roomData = r.roomData,
                   !.peers[i].content = r.content,
                   !.peers[i].lastAppliedAt = r.lastAppliedAt,
                   !.peers[i].dirty =
                      IF r.branch = "applied" THEN FALSE
                      ELSE net.peers[i].dirty ]
  /\ UNCHANGED << roomVars, call, login, sub >>

InitNet == EditorIdle /\ AsideIdle

NextNet ==
  \/ \E i \in Peers, c \in Texts : PeerType(i, c)
  \/ \E i \in Peers : PeerSave(i)
  \/ \E i \in Peers : PeerStore(i)
  \/ \E i \in Peers : PeerSaveDone(i)
  \/ \E i \in Peers : PeerDeliver(i)

SpecNet == InitNet /\ [][NextNet]_vars

\* ------------------------------------------- lib/supabase.ts subscription
MaxArrivals == 3

\* last_edited_by of a row: a user id or null
UserIds == { NULL, "u1" }

\* what the fetch and the channel bring: content and last_edited_by
Payloads == { [ content |-> c, last_edited_by |-> u ] :
                c \in { "a", NULL }, u \in UserIds }

\* the data of the k-th arrival reaches the code that awaits getUserEmail:
\* with no user id getUserEmail returns "Unknown" without a request, and
\* onUpdate runs before any other arrival is handled; otherwise the lookup
\* is in flight
Arrive(s, kind, text, userId) ==
  LET k == s.arrived + 1
  IN IF ~Truthy(userId)
     THEN [ s EXCEPT !.arrived = k,
                     !.calls = Append(s.calls,
                                 [ id |-> k, kind |-> kind, content |-> text,
                                   editorEmail |-> "Unknown" ]) ]
     ELSE [ s EXCEPT !.arrived = k,
                     !.lookups = s.lookups \cup
                                 { [ id |-> k, kind |-> kind,
                                     content |-> text ] } ]

\* the initial fetch settles: .then(async ({ data, error }) => ...)
FetchThen(error, data) ==
  /\ sub.fetch = "sent"
  /\ sub' = IF error THEN [ sub EXCEPT !.fetch = "done" ]
            ELSE [ Arrive(sub, "fetch", OrEmpty(data.content),
                          data.last_edited_by)
                     EXCEPT !.fetch = "done" ]
  /\ UNCHANGED << roomVars, call, login, net >>

\* the channel's postgres_changes callback is called with payload
ChannelUpdate(new) ==
  /\ sub.channel
  /\ sub.arrived < MaxArrivals
  /\ sub' = Arrive(sub, "realtime", new.content, new.last_edited_by)
  /\ UNCHANGED << roomVars, call, login, net >>

\* getUserEmail's select settles for one of the lookups in flight, and the
\* code awaiting it calls onUpdate
getUserEmailDone(k, email) ==
  /\ \E item \in sub.lookups : item.id = k
  /\ LET item == CHOOSE it \in sub.lookups : it.id = k
     IN sub' = [ sub EXCEPT
                   !.lookups = sub.lookups \ { item },
                   !.calls = Append(sub.calls,
                               [ id |-> item.id, kind |-> item.kind,
                                 content |-> item.content,
                                 editorEmail |-> OrUnknown(email) ]) ]
  /\ UNCHANGED << roomVars, call, login, net >>

\* the function subscribeToRoomUpdates returned: removeChannel
Unsubscribe ==
  /\ sub.channel
  /\ sub' = [ sub EXCEPT !.channel = FALSE ]
  /\ UNCHANGED << roomVars, call, login, net >>

InitSub == EditorIdle /\ AsideIdle

NextSub ==
  \/ \E error \in BOOLEAN, data \in Payloads : FetchThen(error, data)
  \/ \E new \in Payloads : ChannelUpdate(new)
  \/ \E k \in 1..(MaxArrivals + 1), email \in { Me, NULL } :
       getUserEmailDone(k, email)
  \/ Unsubscribe

SpecSub == InitSub /\ [][NextSub]_vars

\* ------------------------------------------------------------------ claims
\* the channel delivers next to the mounted component's handler
Delivers(next) ==
  lastOp'.op = "update" /\ (OnRemoteUpdate(next) \/ IndexOnUpdate(next))

NonSelf(next) == next.editor_email # myEmailRef

\* the room version now in the buffer was put there by the last step
VersionApplied ==
  \/ lastOp.op = "loaded" /\ roomData # <<>>
  \/ lastOp.op = "update" /\ lastOp.branch = "applied"

\* t is a time value earlier than the instant hi
Older(t, hi) == DateParse(t) # NaN /\ DateParse(t) < hi

\* C1: whatever the interleaving of load completion, save, typing and
\* change-feed events, no step puts into the content buffer a room version
\* whose updated_at is older than that of a version this session has already
\* applied or written with Save.
C1_NeverRegresses ==
  [][ VersionApplied' => ~Older(roomData'[1].updated_at, hiSeen) ]_vars

\* C1 for the guarded component alone
C1_RoomNeverRegresses ==
  [][ variant = "Room" /\ VersionApplied'
        => ~Older(roomData'[1].updated_at, hiSeen) ]_vars

\* C3: an event whose editor identity is the local user's never changes the
\* content buffer, whatever its timestamp.
C3_SelfEventKeepsContent ==
  [][ \A ev \in Events :
        ev.editor_email = myEmailRef /\ Delivers(ev) => content' = content ]_vars

\* C3 for the guarded component alone
C3_RoomSelfEventKeepsContent ==
  [][ \A ev \in Events :
        ev.editor_email = myEmailRef /\ OnRemoteUpdate(ev)
          => content' = content ]_vars

C3_RoomWitness ==
  /\ variant = "Room"
  /\ lastOp.op = "update" /\ lastOp.branch = "self"
  /\ roomData[1].content # content

\* the event that reports the write of the last Save: same editor identity,
\* same updated_at
Echo(next) ==
  /\ saveReq.written # NULL
  /\ next.editor_email = myEmailRef
  /\ next.updated_at = saveReq.written

\* C4: once a Save has been written, the event reporting that write leaves
\* the content buffer as it was, text typed since the Save included.
C4_EchoKeepsContent ==
  [][ \A ev \in Events :
        Echo(ev) /\ OnRemoteUpdate(ev) => content' = content ]_vars

\* the echo of the stored write was delivered while the buffer held other text
C4_Witness ==
  /\ variant = "Room"
  /\ lastOp.op = "update" /\ lastOp.branch = "self"
  /\ saveReq.written # NULL
  /\ db = roomData
  /\ roomData[1].updated_at = saveReq.written
  /\ roomData[1].editor_email = myEmailRef
  /\ roomData[1].content # content

\* the timestamp the editor compares an event with: the watermark, and in the
\* component that keeps none the updated_at of the version it shows
Watermark ==
  IF variant = "Room" THEN lastAppliedAtRef
  ELSE IF roomData = <<>> THEN NULL ELSE roomData[1].updated_at

\* an event with a time value not later than the watermark's
NotLater(next) ==
  /\ DateParse(next.updated_at) # NaN
  /\ DateParse(Watermark) # NaN
  /\ DateParse(next.updated_at) <= DateParse(Watermark)

\* C5: a non-self event whose timestamp is older than or equal to the
\* watermark is discarded: buffer, metadata and watermark stay, no error shows.
C5_StaleDiscarded ==
  [][ \A ev \in Events :
        NonSelf(ev) /\ NotLater(ev) /\ Delivers(ev)
          => /\ UNCHANGED << content, roomData, lastAppliedAtRef >>
             /\ toast' = "none" ]_vars

\* C5 for the guarded component alone
C5_RoomStaleDiscarded ==
  [][ \A ev \in Events :
        NonSelf(ev) /\ NotLater(ev) /\ OnRemoteUpdate(ev)
          => /\ UNCHANGED << content, roomData, lastAppliedAtRef >>
             /\ toast' = "none" ]_vars

C5_RoomWitness ==
  /\ variant = "Room"
  /\ lastOp.op = "update" /\ lastOp.branch = "stale"
  /\ lastAppliedAtRef # NULL

\* an event with a time value later than the watermark's, or with a time
\* value while there is no watermark
Fresher(next) ==
  /\ DateParse(next.updated_at) # NaN
  /\ \/ lastAppliedAtRef = NULL
     \/ /\ DateParse(lastAppliedAtRef) # NaN
        /\ DateParse(next.updated_at) > DateParse(lastAppliedAtRef)

\* C6: a non-self event newer than the watermark (any timestamp while the
\* watermark is null) is applied: the buffer holds its content (the empty
\* text when the row has none), the metadata is its record, the watermark its
\* timestamp.
C6_NewerApplied ==
  [][ \A ev \in Events :
        NonSelf(ev) /\ Fresher(ev) /\ OnRemoteUpdate(ev)
          => /\ content' = (IF ev.content = NULL THEN "" ELSE ev.content)
             /\ roomData' = << ev >>
             /\ lastAppliedAtRef' = ev.updated_at ]_vars

\* a newer event replaced a loaded version, and the buffer's text with it
C6_Witness ==
  /\ variant = "Room"
  /\ lastOp.op = "update" /\ lastOp.branch = "applied"
  /\ hiSeen > 1
  /\ loadReq.st = "done"

\* C7: the watermark never decreases, and never goes from a timestamp to null.
C7_WatermarkMonotonic ==
  [][ /\ lastAppliedAtRef # NULL => lastAppliedAtRef' # NULL
      /\ DateParse(lastAppliedAtRef') >= DateParse(lastAppliedAtRef) ]_vars

\* C9: a successful Save sets the watermark to the updated_at it wrote to the
\* row, so the event reporting the write is not newer than the watermark.
C9_SaveSetsWatermark ==
  [][ handleSaveDone /\ saveReq.st = "ok"
        => /\ lastAppliedAtRef' = saveReq.written
           /\ \A ev \in Events :
                ev.updated_at = saveReq.written
                  => ~isNewer(ev.updated_at, lastAppliedAtRef') ]_vars

C9_Witness ==
  /\ variant = "Room"
  /\ lastOp.op = "saved"
  /\ lastAppliedAtRef = saveReq.written
  /\ db # <<>> /\ db[1].updated_at = saveReq.written

\* C10: a failed Save shows an error and leaves the editor as it was: buffer,
\* metadata and watermark unchanged, the saving flag back to false.
C10_FailedSaveKeepsState ==
  [][ (handleSaveDone \/ IndexHandleSaveDone) /\ saveReq.st = "error"
        => /\ toast' = "Save failed"
           /\ UNCHANGED << content, roomData, lastAppliedAtRef >>
           /\ isSaving /\ ~isSaving' ]_vars

C10_Witness ==
  /\ lastOp.op = "saveFailed"
  /\ toast = "Save failed"
  /\ ~isSaving

\* C13: a self event that is not newer than the watermark leaves the room
\* metadata (the displayed updated_at and editor email) and the watermark
\* unchanged.
C13_StaleSelfEventKeepsMetadata ==
  [][ \A ev \in Events :
        /\ isSelfUpdate(myEmailRef, ev)
        /\ ~isNewer(ev.updated_at, lastAppliedAtRef)
        /\ roomData # <<>>
        /\ OnRemoteUpdate(ev)
        => UNCHANGED << roomData, lastAppliedAtRef >> ]_vars

\* C13 for the watermark alone
C13_StaleSelfEventKeepsWatermark ==
  [][ \A ev \in Events :
        /\ isSelfUpdate(myEmailRef, ev)
        /\ ~isNewer(ev.updated_at, lastAppliedAtRef)
        /\ OnRemoteUpdate(ev)
        => UNCHANGED lastAppliedAtRef ]_vars

\* C14: the result of a Load that completes after the editor has been torn
\* down is discarded: it changes neither the content buffer, the room
\* metadata, the loading flag nor the watermark.
C14_LoadAfterTeardownDiscarded ==
  [][ loadRoomDone /\ ~subscribed
        => UNCHANGED << content, roomData, loading, lastAppliedAtRef >> ]_vars

\* C16: a successful Save overwrites the stored room's content, editor email
\* and updated_at with the saver's buffer (as it was when Save was pressed),
\* identity and current time, whatever the stored record holds, and changes no
\* other field of the room; and no step deletes the room.
C16_SaveOverwritesThreeFields ==
  /\ [][ saveReq.st = "sent" /\ saveReq'.st = "ok" /\ db # <<>>
          => /\ db' # <<>>
             /\ db'[1].content = saveReq.content
             /\ db'[1].editor_email = myEmailRef
             /\ db'[1].updated_at = saveReq.nowIso
             /\ db'[1].code = db[1].code
             /\ db'[1].name = db[1].name
             /\ db'[1].created_by = db[1].created_by ]_vars
  /\ [][ db # <<>> => db' # <<>> ]_vars

\* a Save was stored over the record the editor had loaded, which carried a
\* later updated_at and another editor's text
C16_Witness ==
  /\ saveReq.st = "ok"
  /\ loadReq.st = "done"
  /\ db # <<>> /\ roomData # <<>>
  /\ db[1].updated_at = saveReq.nowIso
  /\ db[1].editor_email = myEmailRef
  /\ roomData[1].editor_email = Other
  /\ db[1].content # roomData[1].content
  /\ DateParse(db[1].updated_at) < DateParse(roomData[1].updated_at)
  /\ db[1].created_by = "owner"

\* C17: a Load that fails for another reason than record-not-found shows the
\* generic error, redirects to the dashboard, sets neither the content buffer
\* nor the watermark, and is not retried: once a Load has ended, no select is
\* issued again.
C17_LoadFailureRedirects ==
  /\ [][ loadReq.st = "error" /\ loadReq' # loadReq
          => /\ toast' = "Error"
             /\ route' = "dashboard"
             /\ UNCHANGED << content, lastAppliedAtRef >>
             /\ loadReq'.st = "done" ]_vars
  /\ [][ loadReq.st = "done" => loadReq'.st = "done" ]_vars

\* the select failed although the room exists
C17_Witness ==
  /\ lastOp.op = "error"
  /\ toast = "Error"
  /\ route = "dashboard"
  /\ db # <<>>
  /\ loadReq.st = "done"

\* C11: a Load of a code with no room record shows the "Room not found"
\* notice, redirects to the dashboard and sets the loading flag to false; and
\* while no record exists a pending Load always leads to the loading flag
\* being false.
C11_NotFoundEndsLoading ==
  /\ [][ (loadRoomDone \/ IndexLoadRoomDone) /\ loadReq.st = "notFound"
          => /\ toast' = "Room not found"
             /\ route' = "dashboard"
             /\ loading /\ ~loading' ]_vars
  /\ (db = <<>> /\ loadReq.st = "sent") ~> ~loading

C11_Witness ==
  /\ lastOp.op = "notFound"
  /\ db = <<>>
  /\ toast = "Room not found"
  /\ route = "dashboard"
  /\ ~loading

\* a timestamp is present when it is neither null (or undefined) nor empty
Present(s) == Truthy(s)

Parseable(s) == DateParse(s) # NaN

\* C12: isNewer(a, b) follows the tie-break table: both absent, false; a
\* present and b absent, true; a absent and b present, false; both present
\* and parseable, true exactly when a is strictly later than b; both present
\* and one unparseable, true only when exactly one side is non-empty.
C12_IsNewerTable ==
  call.fn = "isNewer" =>
    LET a == call.a
        b == call.b
    IN /\ ~Present(a) /\ ~Present(b) => ~call.out
       /\ Present(a) /\ ~Present(b) => call.out
       /\ ~Present(a) /\ Present(b) => ~call.out
       /\ Present(a) /\ Present(b) /\ Parseable(a) /\ Parseable(b)
            => (call.out <=> DateParse(a) > DateParse(b))
       /\ Present(a) /\ Present(b) /\ ~(Parseable(a) /\ Parseable(b))
            => (call.out => (a = "") # (b = ""))

\* isNewer was evaluated on a date and a string that is no date
C12_Witness ==
  /\ call.fn = "isNewer"
  /\ Present(call.a) /\ Parseable(call.a)
  /\ Present(call.b) /\ ~Parseable(call.b)
  /\ ~call.out

\* C15 as stated: isSelf is true exactly when the event's editor identity
\* equals the user's identity, absent identities included.
C15_IsSelfIffEqual ==
  call.fn = "isSelfUpdate" => (call.out <=> call.a = call.b)

\* C15 as amended: isSelf is true exactly when both identities are present
\* (neither null nor empty) and equal; it is false when either is absent.
C15_IsSelfIffPresentAndEqual ==
  call.fn = "isSelfUpdate" =>
    (call.out <=> Present(call.a) /\ Present(call.b) /\ call.a = call.b)

\* isSelfUpdate was evaluated with both identities absent, and said no
C15_Witness ==
  /\ call.fn = "isSelfUpdate"
  /\ call.a = NULL /\ call.b = NULL
  /\ ~call.out

\* C18: when sign-in or sign-up is rejected, the login screen shows the
\* failure message, stays on the login route, issues no request of its own,
\* and sets its loading flag to false, so that a submit is accepted again.
C18_RejectionResetsLogin ==
  [][ login.req.st \in { "error", "thrown" } /\ login'.req # login.req
        => /\ login'.toast \in { "Login failed", "Registration failed", "Error" }
           /\ login.req.st = "error"
                => login'.toast = (IF login.req.isLogin THEN "Login failed"
                                   ELSE "Registration failed")
           /\ login'.route = "login"
           /\ login'.req.st = "idle"
           /\ login.loading /\ ~login'.loading ]_vars

\* after a rejected sign-in the user has submitted again
C18_Witness ==
  /\ login.last = "error"
  /\ login.req = [ st |-> "sent", isLogin |-> TRUE ]
  /\ login.loading
  /\ login.route = "login"

\* every Save has completed, every event has been delivered to every
\* subscriber, and no editor holds text typed since its last Save
Quiescent ==
  \A i \in Peers :
    /\ net.peers[i].save.st = "idle"
    /\ net.inbox[i] = << >>
    /\ ~net.peers[i].dirty

\* C19: convergence: once every Save has completed, every change-feed event
\* has been delivered to every subscriber and no client holds unsaved local
\* edits, each client's content buffer equals the content stored in the room
\* record.
C19_Convergence ==
  Quiescent => \A i \in Peers : net.peers[i].content = net.row.content

\* C20: subscribeToRoomUpdates calls onUpdate in the order the data
\* arrived: the initial-fetch result is never delivered after a realtime
\* update that arrived later, and two realtime updates are passed to onUpdate
\* in the order they were received.
C20_OnUpdateInArrivalOrder ==
  \A i, j \in 1..Len(sub.calls) :
    i < j => sub.calls[i].id < sub.calls[j].id

\* C21: after the unsubscribe function returned by subscribeToRoomUpdates
\* has been called, onUpdate is never invoked again, not even for an initial
\* fetch or an editor-email lookup that was in flight at that moment.
C21_NoOnUpdateAfterUnsubscribe ==
  [][ ~sub.channel => sub'.calls = sub.calls ]_vars

\* a Save request has been issued and handleSave has not yet resumed from it
SaveInFlight == saveReq.st # "idle"

\* C22: the saving flag is true in every state in which a Save request is in
\* flight and false when none is, and every Save, whether it succeeds or
\* fails, eventually returns the flag to false.
C22_SavingFlagTracksSave ==
  /\ [](isSaving <=> SaveInFlight)
  /\ isSaving ~> ~isSaving

\* the store has rejected a Save and handleSave has yet to resume: the flag
\* is still set
C22_Witness ==
  /\ Rendered
  /\ isSaving
  /\ saveReq.st = "error"

\* C23: on the login screen at most one authentication request is in flight
\* at any time: a request is issued only by a submit made while none is
\* pending, the loading flag is false and email and password are both
\* non-empty; any other submit issues none.
C23_SingleAuthRequest ==
  [][ /\ login'.pending <= 1
      /\ login'.pending > login.pending
           => /\ login.pending = 0
              /\ ~login.loading
              /\ Truthy(login.email) /\ Truthy(login.password)
      /\ handleSubmit /\ (login.loading \/ ~Truthy(login.email)
                                         \/ ~Truthy(login.password))
           => login'.pending = login.pending /\ login'.req = login.req ]_vars

\* a submit with an empty field, made after a request had been rejected, was
\* turned down with no request issued
C23_Witness ==
  /\ login.toast = "Missing fields"
  /\ login.last = "thrown"
  /\ login.pending = 0
  /\ login.req.st = "idle"
  /\ ~login.loading

\* ------------------------------------------- claims on delivery scenarios
SelfEvents(S) == { ev \in S : ev.editor_email = myEmailRef }
NonSelfEvents(S) == { ev \in S : ev.editor_email # myEmailRef }

\* every event carries a time value and no two carry the same
DistinctTimes(S) ==
  /\ \A ev \in S : DateParse(ev.updated_at) # NaN
  /\ \A e1, e2 \in S :
       e1 # e2 => DateParse(e1.updated_at) # DateParse(e2.updated_at)

\* n is the non-self event of S with the latest time value
LatestNonSelf(n, S) ==
  /\ n \in NonSelfEvents(S)
  /\ \A m \in NonSelfEvents(S) :
       DateParse(m.updated_at) <= DateParse(n.updated_at)

\* t is a time value later than the watermark w, or w is null
After(t, w) ==
  DateParse(t) # NaN /\ (w = NULL \/ DateParse(t) > DateParse(w))

\* C2 as stated: events with pairwise distinct timestamps, any order, all
\* delivered: the buffer holds the content of the latest non-self event,
\* provided it is newer than the watermark the scenario began with.
C2_LatestNonSelfWins ==
  delivered = feed /\ DistinctTimes(feed)
    => \A n \in feed :
         LatestNonSelf(n, feed) /\ After(n.updated_at, start.lastAppliedAt)
           => content = (IF n.content = NULL THEN "" ELSE n.content)

\* C2 as amended: ... provided the latest non-self event is newer than the
\* starting watermark and than every self event of the set.
C2_LatestNonSelfWinsOverSelf ==
  delivered = feed /\ DistinctTimes(feed)
    => \A n \in feed :
         ( /\ LatestNonSelf(n, feed)
           /\ After(n.updated_at, start.lastAppliedAt)
           /\ \A e \in SelfEvents(feed) :
                DateParse(e.updated_at) < DateParse(n.updated_at) )
           => content = (IF n.content = NULL THEN "" ELSE n.content)

\* a self and a later non-self event were both delivered, and the buffer now
\* holds the non-self event's text in place of the text it began with
C2_Witness ==
  /\ delivered = feed /\ DistinctTimes(feed)
  /\ SelfEvents(feed) # {}
  /\ \E n \in feed :
       /\ LatestNonSelf(n, feed)
       /\ After(n.updated_at, start.lastAppliedAt)
       /\ start.lastAppliedAt # NULL
       /\ \A e \in SelfEvents(feed) :
            DateParse(e.updated_at) < DateParse(n.updated_at)
       /\ content = n.content
       /\ content # start.content

\* the editor's state after the handler has run on st
Result(st, next) ==
  LET r == UpdateHandler(st, myEmailRef, next)
  IN [ roomData |-> r.roomData, content |-> r.content,
       lastAppliedAt |-> r.lastAppliedAt ]

\* a second delivery of an event changes nothing the first left
Idempotent ==
  \A ev \in feed : Result(Result(EditorState, ev), ev) = Result(EditorState, ev)

\* buffer and watermark after e1 then e2, from the scenario's first state
InOrder(e1, e2) ==
  LET r == Result(Result(start, e1), e2)
  IN << r.content, r.lastAppliedAt >>

\* C8 as stated: a repeated delivery changes nothing, and two events leave
\* the same buffer and watermark in either order.
C8_IdempotentAnyOrder ==
  /\ Idempotent
  /\ delivered = feed /\ Cardinality(feed) = 2
       => \A e1, e2 \in feed :
            e1 # e2 => << content, lastAppliedAtRef >> = InOrder(e1, e2)

\* every non-self event of S is newer than every self event of S, and no
\* two non-self events carry the same time value
SelfFirst(S) ==
  /\ \A n \in NonSelfEvents(S), e \in SelfEvents(S) :
       isNewer(n.updated_at, e.updated_at)
  /\ \A n1, n2 \in NonSelfEvents(S) :
       n1 # n2 => DateParse(n1.updated_at) # DateParse(n2.updated_at)

\* C8 as amended: a repeated delivery changes nothing; two events leave the
\* same buffer and watermark in either order when the non-self ones among
\* them carry different timestamps, each newer than the self ones'.
C8_IdempotentOrderedPairs ==
  /\ Idempotent
  /\ delivered = feed /\ Cardinality(feed) = 2 /\ SelfFirst(feed)
       => \A e1, e2 \in feed :
            e1 # e2 => << content, lastAppliedAtRef >> = InOrder(e1, e2)

\* two non-self events were delivered, the older one last, and the buffer
\* holds the newer one's text
C8_Witness ==
  /\ delivered = feed /\ Cardinality(feed) = 2 /\ SelfFirst(feed)
  /\ SelfEvents(feed) = {}
  /\ lastOp.op = "update" /\ lastOp.branch = "stale"
  /\ content # start.content
  /\ \E n \in feed : roomData = << n >> /\ After(n.updated_at, start.lastAppliedAt)

====
